---- MODULE Spec2Model ----
(***************************************************************************)
(* Model of the table-extraction pipeline (pdf_to_csv.py) and of the slide *)
(* renderer (csv_to_powerpoint.py).                                        *)
(*                                                                         *)
(* Spec     : pdf_to_csv.main, from fitz.open to the closed CSV file.      *)
(* SpecCsv  : convert_to_csv on an arbitrary table followed by             *)
(*            csv_to_powerpoint.main reading the file it wrote.            *)
(*                                                                         *)
(* A cell string is a sequence of one-character strings.                   *)
(***************************************************************************)
EXTENDS Integers, Sequences, FiniteSets, TLC

VARIABLES
    pc,            \* position of pdf_to_csv.main
    err,           \* exception that left pdf_to_csv.main, "" when none
    completed,     \* stages of process_pdf_to_image / main that have returned
    page_num,      \* argument of extract_image_from_pdf
    pdf_document,  \* handle returned by fitz.open: "none", "open", "closed"
    image_file,    \* what data/image.png holds
    contours,      \* correct_skew: number of contours found, -1 outside the call
    angle,         \* correct_skew: rotation angle, 0 outside the call
    extracted_text,\* result of reader.readtext
    pickle_file,   \* what data/extracted_text.pickle holds
    idx,           \* 1-based position of the for loop of convert_table_data_to_csv
    rows,          \* rows of convert_table_data_to_csv / table_data of convert_to_csv
    row_height,    \* row_height of convert_table_data_to_csv
    wi,            \* 1-based position of the for loop of convert_to_csv
    csvfile,       \* characters of data/output.csv
    csv_state,     \* "absent", "open", "closed"
    pc2,           \* position of csv_to_powerpoint.main
    err2,          \* exception that left csv_to_powerpoint.main
    read_pos,      \* 1-based position of the csv reader in the file
    pp_rows,       \* rows of csv_to_powerpoint.main
    li,            \* 1-based position of the longest-row loop
    longest_row,   \* longest_row of csv_to_powerpoint.main
    table,         \* the slide table: [nrows, ncols, cells], or NoTable
    i,             \* i of the populate loop (0-based, as in the code)
    j,             \* j of the populate loop (0-based)
    pptx_saved     \* TRUE once prs.save has returned

pipeVars == <<pc, err, completed, page_num, pdf_document, image_file, contours, angle,
              extracted_text, pickle_file, idx, rows, row_height>>
csvVars  == <<wi, csvfile, csv_state>>
pptVars  == <<pc2, err2, read_pos, pp_rows, li, longest_row, table, i, j, pptx_saved>>
vars     == <<pipeVars, csvVars, pptVars>>

----------------------------------------------------------------------------
(* Bounds of the model *)
MaxPageNum    == 1
MaxPages      == 2
MaxContours   == 2
MaxDetections == 3
MaxRows       == 2
MaxCells      == 3
MaxChars      == 2

(* Program constants *)
RowGap == 20

Angles == {-90, -60, -45, -30, 0}
Ys     == {10, 20, 21, 40, 41, 62}
Texts  == {<<"A">>, <<"B">>}

Detection(y, text) == [y |-> y, text |-> text]

Example5 == << Detection(10, <<"A">>), Detection(12, <<"B">>), Detection(35, <<"C">>),
               Detection(37, <<"D">>), Detection(60, <<"E">>) >>
Example3 == << Detection(100, <<"A">>), Detection(102, <<"B">>), Detection(140, <<"C">>) >>

RECURSIVE SeqsUpTo(_, _)
SeqsUpTo(S, n) ==
    IF n = 0 THEN {<<>>}
    ELSE LET shorter == SeqsUpTo(S, n - 1)
         IN  shorter \cup {Append(s, x) : s \in {t \in shorter : Len(t) = n - 1}, x \in S}

DetectionSeqs ==
    SeqsUpTo({Detection(y, t) : y \in Ys, t \in Texts}, MaxDetections)
        \cup {Example5, Example3}

NoTable == [nrows |-> -1, ncols |-> -1, cells |-> <<>>]

----------------------------------------------------------------------------
(* extract_image_from_pdf *)

Raise(e) == pc' = "raised" /\ err' = e

ExtractOpen ==
    /\ pc = "extract_open"
    /\ \/ /\ pdf_document' = "open"
          /\ pc' = "extract_page"
          /\ UNCHANGED err
       \/ /\ Raise("FileNotFoundError")
          /\ UNCHANGED pdf_document
    /\ UNCHANGED <<completed, page_num, image_file, contours, angle, extracted_text,
                   pickle_file, idx, rows, row_height, csvVars, pptVars>>

ExtractPage ==
    /\ pc = "extract_page"
    /\ \E page_count \in 1..MaxPages :
          IF page_num < page_count
          THEN pc' = "extract_pixmap" /\ UNCHANGED err
          ELSE Raise("ValueError")
    /\ UNCHANGED <<completed, page_num, pdf_document, image_file, contours, angle,
                   extracted_text, pickle_file, idx, rows, row_height, csvVars, pptVars>>

ExtractPixmap ==
    /\ pc = "extract_pixmap"
    /\ \/ pc' = "extract_save" /\ UNCHANGED err
       \/ Raise("RuntimeError")
    /\ UNCHANGED <<completed, page_num, pdf_document, image_file, contours, angle,
                   extracted_text, pickle_file, idx, rows, row_height, csvVars, pptVars>>

ExtractSave ==
    /\ pc = "extract_save"
    /\ \/ /\ image_file' = "raster"
          /\ pc' = "extract_close"
          /\ UNCHANGED err
       \/ /\ Raise("RuntimeError")
          /\ UNCHANGED image_file
    /\ UNCHANGED <<completed, page_num, pdf_document, contours, angle,
                   extracted_text, pickle_file, idx, rows, row_height, csvVars, pptVars>>

ExtractCloseSkipsDeskew ==
    /\ pc = "extract_close"
    /\ pdf_document' = "closed"
    /\ completed' = Append(completed, "rasterize")
    /\ pc' = "lines_read"
    /\ UNCHANGED <<err, page_num, image_file, contours, angle,
                   extracted_text, pickle_file, idx, rows, row_height, csvVars, pptVars>>

ExtractClose ==
    /\ pc = "extract_close"
    /\ pdf_document' = "closed"
    /\ completed' = Append(completed, "rasterize")
    /\ pc' = "skew_contours"
    /\ UNCHANGED <<err, page_num, image_file, contours, angle,
                   extracted_text, pickle_file, idx, rows, row_height, csvVars, pptVars>>

----------------------------------------------------------------------------
(* correct_skew *)

SkewContours ==
    /\ pc = "skew_contours"
    /\ \/ /\ \E n \in 0..MaxContours : contours' = n
          /\ pc' = "skew_largest"
          /\ UNCHANGED err
       \/ /\ Raise("cv2.error")
          /\ UNCHANGED contours
    /\ UNCHANGED <<completed, page_num, pdf_document, image_file, angle,
                   extracted_text, pickle_file, idx, rows, row_height, csvVars, pptVars>>

NormalizeAngle(a) == IF a < -45 THEN a + 90 ELSE a

SkewLargestPassThrough ==
    /\ pc = "skew_largest"
    /\ IF contours = 0
       THEN angle' = 0
       ELSE \E a \in Angles : angle' = NormalizeAngle(a)
    /\ pc' = "skew_write"
    /\ UNCHANGED <<err, completed, page_num, pdf_document, image_file, contours,
                   extracted_text, pickle_file, idx, rows, row_height, csvVars, pptVars>>

SkewLargest ==
    /\ pc = "skew_largest"
    /\ IF contours = 0
       THEN Raise("ValueError") /\ UNCHANGED angle
       ELSE /\ \E a \in Angles : angle' = NormalizeAngle(a)
            /\ pc' = "skew_write"
            /\ UNCHANGED err
    /\ UNCHANGED <<completed, page_num, pdf_document, image_file, contours,
                   extracted_text, pickle_file, idx, rows, row_height, csvVars, pptVars>>

SkewWrite ==
    /\ pc = "skew_write"
    /\ \/ /\ image_file' = "deskewed"
          /\ completed' = Append(completed, "deskew")
          /\ pc' = "lines_read"
          /\ contours' = -1
          /\ angle' = 0
          /\ UNCHANGED err
       \/ /\ Raise("cv2.error")
          /\ UNCHANGED <<image_file, completed, contours, angle>>
    /\ UNCHANGED <<page_num, pdf_document,
                   extracted_text, pickle_file, idx, rows, row_height, csvVars, pptVars>>

----------------------------------------------------------------------------
(* remove_table_lines *)

LinesRead ==
    /\ pc = "lines_read"
    /\ \/ pc' = "lines_write" /\ UNCHANGED err
       \/ Raise("cv2.error")
    /\ UNCHANGED <<completed, page_num, pdf_document, image_file, contours, angle,
                   extracted_text, pickle_file, idx, rows, row_height, csvVars, pptVars>>

LinesWrite ==
    /\ pc = "lines_write"
    /\ \/ /\ image_file' = "stripped"
          /\ completed' = Append(completed, "strip_gridlines")
          /\ pc' = "ocr"
          /\ UNCHANGED err
       \/ /\ Raise("cv2.error")
          /\ UNCHANGED <<image_file, completed>>
    /\ UNCHANGED <<page_num, pdf_document, contours, angle,
                   extracted_text, pickle_file, idx, rows, row_height, csvVars, pptVars>>

----------------------------------------------------------------------------
(* extract_text_from_image, pickle_extracted_text *)

ExtractText ==
    /\ pc = "ocr"
    /\ \/ /\ \E result \in DetectionSeqs : extracted_text' = result
          /\ completed' = Append(completed, "detect_text")
          /\ pc' = "pickle"
          /\ UNCHANGED err
       \/ /\ Raise("RuntimeError")
          /\ UNCHANGED <<extracted_text, completed>>
    /\ UNCHANGED <<page_num, pdf_document, image_file, contours, angle,
                   pickle_file, idx, rows, row_height, csvVars, pptVars>>

PickleExtractedText ==
    /\ pc = "pickle"
    /\ \/ /\ pickle_file' = "written"
          /\ pc' = "recon_init"
          /\ UNCHANGED err
       \/ /\ Raise("OSError")
          /\ UNCHANGED pickle_file
    /\ UNCHANGED <<completed, page_num, pdf_document, image_file, contours, angle,
                   extracted_text, idx, rows, row_height, csvVars, pptVars>>

----------------------------------------------------------------------------
(* convert_table_data_to_csv *)

ReconInit ==
    /\ pc = "recon_init"
    /\ rows' = <<>>
    /\ row_height' = 0
    /\ idx' = 1
    /\ pc' = "recon_loop"
    /\ UNCHANGED <<err, completed, page_num, pdf_document, image_file, contours, angle,
                   extracted_text, pickle_file, csvVars, pptVars>>

StartsNewRow(y, h) == y - h > RowGap

AppendToLastFront(rs, text) ==
    [rs EXCEPT ![Len(rs)] = <<text>> \o @]

AppendToLast(rs, text) ==
    [rs EXCEPT ![Len(rs)] = Append(@, text)]

ReconStep ==
    /\ pc = "recon_loop"
    /\ idx <= Len(extracted_text)
    /\ LET point == extracted_text[idx]
           new   == StartsNewRow(point.y, row_height)
           rows1 == IF new THEN Append(rows, <<>>) ELSE rows
       IN  IF rows1 = <<>>
           THEN /\ Raise("IndexError")
                /\ UNCHANGED <<rows, row_height, idx>>
           ELSE /\ rows' = AppendToLast(rows1, point.text)
                /\ row_height' = IF new THEN point.y ELSE row_height
                /\ idx' = idx + 1
                /\ UNCHANGED <<pc, err>>
    /\ UNCHANGED <<completed, page_num, pdf_document, image_file, contours, angle,
                   extracted_text, pickle_file, csvVars, pptVars>>

ReconEnd ==
    /\ pc = "recon_loop"
    /\ idx > Len(extracted_text)
    /\ completed' = Append(completed, "reconstruct_rows")
    /\ pc' = "csv_open"
    /\ UNCHANGED <<err, page_num, pdf_document, image_file, contours, angle,
                   extracted_text, pickle_file, idx, rows, row_height, csvVars, pptVars>>

----------------------------------------------------------------------------
(* convert_to_csv: csv.writer with the default (excel) dialect *)

Delimiter      == ","
QuoteChar      == "\""
LineTerminator == <<"\r", "\n">>

NeedsQuoteNoCR(c) == c = Delimiter \/ c = QuoteChar \/ c = "\n"

NeedsQuote(c) ==
    c = Delimiter \/ c = QuoteChar \/ \E k \in 1..Len(LineTerminator) : LineTerminator[k] = c

FieldQuoted(field) == \E k \in 1..Len(field) : NeedsQuote(field[k])

RECURSIVE EscapeField(_)
EscapeField(field) ==
    IF field = <<>> THEN <<>>
    ELSE (IF Head(field) = QuoteChar THEN <<QuoteChar, QuoteChar>> ELSE <<Head(field)>>)
             \o EscapeField(Tail(field))

JoinAppend(rec, field, num_fields) ==
    rec \o (IF num_fields > 0 THEN <<Delimiter>> ELSE <<>>)
        \o (IF FieldQuoted(field)
            THEN <<QuoteChar>> \o EscapeField(field) \o <<QuoteChar>>
            ELSE field)

RECURSIVE JoinFields(_, _, _)
JoinFields(rec, row, k) ==
    IF k > Len(row) THEN rec
    ELSE JoinFields(JoinAppend(rec, row[k], k - 1), row, k + 1)

WriteRowText(row) ==
    LET rec == JoinFields(<<>>, row, 1)
    IN  (IF Len(row) > 0 /\ rec = <<>> THEN <<QuoteChar, QuoteChar>> ELSE rec)
            \o LineTerminator

CsvOpen ==
    /\ pc = "csv_open"
    /\ \/ /\ csv_state' = "open"
          /\ csvfile' = <<>>
          /\ wi' = 1
          /\ pc' = "csv_write"
          /\ UNCHANGED err
       \/ /\ Raise("OSError")
          /\ UNCHANGED csvVars
    /\ UNCHANGED <<completed, page_num, pdf_document, image_file, contours, angle,
                   extracted_text, pickle_file, idx, rows, row_height, pptVars>>

WriteRow ==
    /\ pc = "csv_write"
    /\ wi <= Len(rows)
    /\ csvfile' = csvfile \o WriteRowText(rows[wi])
    /\ wi' = wi + 1
    /\ UNCHANGED <<pipeVars, csv_state, pptVars>>

CsvClose ==
    /\ pc = "csv_write"
    /\ wi > Len(rows)
    /\ csv_state' = "closed"
    /\ completed' = Append(completed, "serialize")
    /\ pc' = "done"
    /\ UNCHANGED <<err, page_num, pdf_document, image_file, contours, angle,
                   extracted_text, pickle_file, idx, rows, row_height, wi, csvfile, pptVars>>

----------------------------------------------------------------------------
(* pdf_to_csv.main *)

InitPpt ==
    /\ pc2 = "start"
    /\ err2 = ""
    /\ read_pos = 1
    /\ pp_rows = <<>>
    /\ li = 1
    /\ longest_row = 0
    /\ table = NoTable
    /\ i = 0
    /\ j = 0
    /\ pptx_saved = FALSE

Init ==
    /\ pc = "extract_open"
    /\ err = ""
    /\ completed = <<>>
    /\ page_num \in 0..MaxPageNum      \* main passes 0; the function takes any index
    /\ pdf_document = "none"
    /\ image_file \in {"absent", "stale"}
    /\ contours = -1
    /\ angle = 0
    /\ extracted_text = <<>>
    /\ pickle_file = "absent"
    /\ idx = 1
    /\ rows = <<>>
    /\ row_height = 0
    /\ wi = 1
    /\ csvfile = <<>>
    /\ csv_state = "absent"
    /\ InitPpt

Next ==
    \/ ExtractOpen
    \/ ExtractPage
    \/ ExtractPixmap
    \/ ExtractSave
    \/ ExtractClose
    \/ SkewContours
    \/ SkewLargest
    \/ SkewWrite
    \/ LinesRead
    \/ LinesWrite
    \/ ExtractText
    \/ PickleExtractedText
    \/ ReconInit
    \/ ReconStep
    \/ ReconEnd
    \/ CsvOpen
    \/ WriteRow
    \/ CsvClose

Spec == Init /\ [][Next]_vars

----------------------------------------------------------------------------
(* csv_to_powerpoint.main: csv.reader with the default (excel) dialect over *)
(* a file opened with newline=''                                            *)

IsNewline(c) == c = "\n" \/ c = "\r"

\* last position of the line that starts at pos: lines end at "\n", "\r" or "\r\n"
RECURSIVE LineEnd(_, _)
LineEnd(file, pos) ==
    IF pos >= Len(file) THEN Len(file)
    ELSE IF file[pos] = "\n" THEN pos
    ELSE IF file[pos] = "\r" THEN (IF file[pos + 1] = "\n" THEN pos + 1 ELSE pos)
    ELSE LineEnd(file, pos + 1)

ReaderReset == [state |-> "START_RECORD", field |-> <<>>, fields |-> <<>>]

SaveField(st) == [st EXCEPT !.fields = Append(@, st.field), !.field = <<>>]
AddChar(st, c) == [st EXCEPT !.field = Append(@, c)]
SetState(st, s) == [st EXCEPT !.state = s]
AfterLine(c) == IF c = "EOL" THEN "START_RECORD" ELSE "EAT_CRNL"

StartField(st, c) ==
    IF IsNewline(c) \/ c = "EOL" THEN SetState(SaveField(st), AfterLine(c))
    ELSE IF c = QuoteChar THEN SetState(st, "IN_QUOTED_FIELD")
    ELSE IF c = Delimiter THEN SetState(SaveField(st), "START_FIELD")
    ELSE SetState(AddChar(st, c), "IN_FIELD")

ProcessChar(st, c) ==
    CASE st.state = "START_RECORD" ->
            IF c = "EOL" THEN st
            ELSE IF IsNewline(c) THEN SetState(st, "EAT_CRNL")
            ELSE StartField(st, c)
      [] st.state = "START_FIELD" -> StartField(st, c)
      [] st.state = "IN_FIELD" ->
            IF IsNewline(c) \/ c = "EOL" THEN SetState(SaveField(st), AfterLine(c))
            ELSE IF c = Delimiter THEN SetState(SaveField(st), "START_FIELD")
            ELSE AddChar(st, c)
      [] st.state = "IN_QUOTED_FIELD" ->
            IF c = "EOL" THEN st
            ELSE IF c = QuoteChar THEN SetState(st, "QUOTE_IN_QUOTED_FIELD")
            ELSE AddChar(st, c)
      [] st.state = "QUOTE_IN_QUOTED_FIELD" ->
            IF c = QuoteChar THEN SetState(AddChar(st, c), "IN_QUOTED_FIELD")
            ELSE IF c = Delimiter THEN SetState(SaveField(st), "START_FIELD")
            ELSE IF IsNewline(c) \/ c = "EOL" THEN SetState(SaveField(st), AfterLine(c))
            ELSE SetState(AddChar(st, c), "IN_FIELD")
      [] st.state = "EAT_CRNL" ->
            IF IsNewline(c) THEN st
            ELSE IF c = "EOL" THEN SetState(st, "START_RECORD")
            ELSE SetState(st, "ERROR")
      [] OTHER -> st

RECURSIVE ProcessLine(_, _)
ProcessLine(st, line) ==
    IF line = <<>> THEN st
    ELSE ProcessLine(ProcessChar(st, Head(line)), Tail(line))

\* Reader_iternext: feeds lines to the parser until a record is complete
RECURSIVE ReaderNext(_, _, _)
ReaderNext(file, pos, st) ==
    IF pos > Len(file)
    THEN IF st.field # <<>> \/ st.state = "IN_QUOTED_FIELD"
         THEN [kind |-> "row", row |-> SaveField(st).fields, pos |-> pos]
         ELSE [kind |-> "stop", row |-> <<>>, pos |-> pos]
    ELSE LET e   == LineEnd(file, pos)
             st1 == ProcessChar(ProcessLine(st, SubSeq(file, pos, e)), "EOL")
         IN  IF st1.state = "ERROR"
             THEN [kind |-> "error", row |-> <<>>, pos |-> pos]
             ELSE IF st1.state = "START_RECORD"
             THEN [kind |-> "row", row |-> st1.fields, pos |-> e + 1]
             ELSE ReaderNext(file, e + 1, st1)

Raise2(e) == pc2' = "raised" /\ err2' = e

OpenCsv ==
    /\ pc2 = "start"
    /\ pc = "done"
    /\ pp_rows' = <<>>
    /\ read_pos' = 1
    /\ pc2' = "read"
    /\ UNCHANGED <<pipeVars, csvVars, err2, li, longest_row, table, i, j, pptx_saved>>

ReadRow ==
    /\ pc2 = "read"
    /\ LET r == ReaderNext(csvfile, read_pos, ReaderReset)
       IN  CASE r.kind = "row" ->
                   /\ pp_rows' = Append(pp_rows, r.row)
                   /\ read_pos' = r.pos
                   /\ UNCHANGED <<pc2, err2, li, longest_row>>
             [] r.kind = "stop" ->
                   /\ pc2' = "longest"
                   /\ longest_row' = 0
                   /\ li' = 1
                   /\ UNCHANGED <<pp_rows, read_pos, err2>>
             [] OTHER ->
                   /\ Raise2("csv.Error")
                   /\ UNCHANGED <<pp_rows, read_pos, li, longest_row>>
    /\ UNCHANGED <<pipeVars, csvVars, table, i, j, pptx_saved>>

UpdateLongestFirstRow(len, longest) == IF longest = 0 THEN len ELSE longest

UpdateLongest(len, longest) == IF len > longest THEN len ELSE longest

LongestRowStep ==
    /\ pc2 = "longest"
    /\ li <= Len(pp_rows)
    /\ longest_row' = UpdateLongest(Len(pp_rows[li]), longest_row)
    /\ li' = li + 1
    /\ UNCHANGED <<pipeVars, csvVars, pc2, err2, read_pos, pp_rows, table, i, j, pptx_saved>>

\* slide.shapes.add_table: a grid of blank cells.  What the library does with a
\* grid of no rows or no columns is not fixed by this program: it may build the
\* empty grid or raise.
AddTable ==
    /\ pc2 = "longest"
    /\ li > Len(pp_rows)
    /\ \/ /\ table' = [nrows |-> Len(pp_rows), ncols |-> longest_row,
                       cells |-> [p \in (0..(Len(pp_rows) - 1)) \X (0..(longest_row - 1)) |-> <<>>]]
          /\ i' = 0
          /\ j' = 0
          /\ pc2' = "fill"
          /\ UNCHANGED err2
       \/ /\ Len(pp_rows) = 0 \/ longest_row = 0
          /\ Raise2("ZeroDivisionError")
          /\ UNCHANGED <<table, i, j>>
    /\ UNCHANGED <<pipeVars, csvVars, read_pos, pp_rows, li, longest_row, pptx_saved>>

InGrid(t, r, c) == r >= 0 /\ r < t.nrows /\ c >= 0 /\ c < t.ncols

FillCell ==
    /\ pc2 = "fill"
    /\ i < Len(pp_rows)
    /\ j < Len(pp_rows[i + 1])
    /\ IF InGrid(table, i, j)
       THEN /\ table' = [table EXCEPT !.cells[<<i, j>>] = pp_rows[i + 1][j + 1]]
            /\ j' = j + 1
            /\ UNCHANGED <<pc2, err2>>
       ELSE /\ Raise2("IndexError")
            /\ UNCHANGED <<table, j>>
    /\ UNCHANGED <<pipeVars, csvVars, read_pos, pp_rows, li, longest_row, i, pptx_saved>>

FillNextRow ==
    /\ pc2 = "fill"
    /\ i < Len(pp_rows)
    /\ j >= Len(pp_rows[i + 1])
    /\ i' = i + 1
    /\ j' = 0
    /\ UNCHANGED <<pipeVars, csvVars, pc2, err2, read_pos, pp_rows, li, longest_row, table,
                   pptx_saved>>

SavePresentation ==
    /\ pc2 = "fill"
    /\ i >= Len(pp_rows)
    /\ \/ /\ pptx_saved' = TRUE
          /\ pc2' = "done"
          /\ UNCHANGED err2
       \/ /\ Raise2("OSError")
          /\ UNCHANGED pptx_saved
    /\ UNCHANGED <<pipeVars, csvVars, read_pos, pp_rows, li, longest_row, table, i, j>>

----------------------------------------------------------------------------
(* convert_to_csv on any table, then csv_to_powerpoint.main *)

Chars == {"a", Delimiter, QuoteChar, "\n", "\r"}

Cells == SeqsUpTo(Chars, MaxChars)

RECURSIVE SumSeq(_)
SumSeq(ns) == IF ns = <<>> THEN 0 ELSE Head(ns) + SumSeq(Tail(ns))

CharsIn(cells) == SumSeq([k \in 1..Len(cells) |-> Len(cells[k])])

\* the sequences of exactly k cells that hold at most MaxChars characters in all
RECURSIVE CellSeqs(_)
CellSeqs(k) ==
    IF k = 0 THEN {<<>>}
    ELSE UNION { {Append(f, d) : d \in {e \in Cells : Len(e) <= MaxChars - CharsIn(f)}} :
                 f \in CellSeqs(k - 1) }

AllCellSeqs == UNION {CellSeqs(k) : k \in 0..MaxCells}

\* row lengths of the tables of at most MaxRows rows and MaxCells cells
Shapes == {sh \in SeqsUpTo(0..MaxCells, MaxRows) : SumSeq(sh) <= MaxCells}

\* the cells f cut into rows of the lengths sh
RECURSIVE Split(_, _)
Split(f, sh) ==
    IF sh = <<>> THEN <<>>
    ELSE <<SubSeq(f, 1, Head(sh))>> \o Split(SubSeq(f, Head(sh) + 1, Len(f)), Tail(sh))

\* table_data is any table of at most MaxRows rows, MaxCells cells and MaxChars
\* characters
IsTable(t) ==
    \E sh \in Shapes : \E f \in {g \in AllCellSeqs : Len(g) = SumSeq(sh)} : t = Split(f, sh)

InitCsv ==
    /\ pc = "csv_open"
    /\ err = ""
    /\ completed = <<>>
    /\ page_num = 0
    /\ pdf_document = "none"
    /\ image_file = "absent"
    /\ contours = -1
    /\ angle = 0
    /\ extracted_text = <<>>
    /\ pickle_file = "absent"
    /\ idx = 1
    /\ IsTable(rows)
    /\ row_height = 0
    /\ wi = 1
    /\ csvfile = <<>>
    /\ csv_state = "absent"
    /\ InitPpt

NextCsv ==
    \/ CsvOpen
    \/ WriteRow
    \/ CsvClose
    \/ OpenCsv
    \/ ReadRow
    \/ LongestRowStep
    \/ AddTable
    \/ FillCell
    \/ FillNextRow
    \/ SavePresentation

SpecCsv == InitCsv /\ [][NextCsv]_vars

----------------------------------------------------------------------------
(* Properties *)

RECURSIVE Flatten(_)
Flatten(rs) == IF rs = <<>> THEN <<>> ELSE Head(rs) \o Flatten(Tail(rs))

TextsOf(points, n) == [k \in 1..n |-> points[k].text]
RowSizes(rs) == [k \in 1..Len(rs) |-> Len(rs[k])]
IsPrefix(s, t) == Len(s) <= Len(t) /\ \A k \in 1..Len(s) : s[k] = t[k]
MaxRowLength(rs) ==
    IF rs = <<>> THEN 0
    ELSE CHOOSE m \in {Len(rs[k]) : k \in 1..Len(rs)} : \A k \in 1..Len(rs) : Len(rs[k]) <= m

ReconReturned == pc \in {"csv_open", "csv_write", "done"}
ReconRaised   == pc = "raised" /\ err = "IndexError"

\* C1: for every non-empty detection sequence row reconstruction completes (it
\* does not raise) and the cells of the produced rows number exactly the
\* detections.
C1_EveryDetectionInOneRow ==
    /\ ~ReconRaised
    /\ (ReconReturned /\ extracted_text # <<>>) => Len(Flatten(rows)) = Len(extracted_text)

\* C2: row reconstruction of an empty detection sequence ends in an error; it
\* never returns, and never leaves a CSV file of zero rows behind.
C2_EmptyDetectionSetIsAnError ==
    /\ ReconReturned => extracted_text # <<>>
    /\ csv_state = "closed" => rows # <<>>

\* C3: once the first detection has been taken up, its text is the first cell of
\* the first row whatever its y; y-bottoms 10, 12, 35, 37, 60 give rows of sizes
\* 2, 2, 1.
C3_FirstRowCreatedForFirstDetection ==
    /\ (extracted_text # <<>> /\ (ReconRaised \/ idx > 1))
          => (rows # <<>> /\ rows[1] # <<>> /\ rows[1][1] = extracted_text[1].text)
    /\ (extracted_text = Example5 /\ pc \in {"done", "raised"} /\ err # "OSError")
          => RowSizes(rows) = <<2, 2, 1>>

\* C4: each pass of the loop starts a new row holding the detection exactly when
\* y - row_height > 20, setting row_height to y, and otherwise appends the
\* detection to the current row and leaves row_height alone; y-bottoms 100, 102,
\* 140 with texts A, B, C give [[A, B], [C]].
C4_ThresholdStep ==
    /\ [][ (pc = "recon_loop" /\ idx <= Len(extracted_text)) =>
             LET point == extracted_text[idx]
             IN  IF point.y - row_height > 20
                 THEN /\ rows' = Append(rows, <<point.text>>)
                      /\ row_height' = point.y
                 ELSE /\ rows # <<>>
                      /\ rows' = [rows EXCEPT ![Len(rows)] = Append(@, point.text)]
                      /\ row_height' = row_height ]_vars
    /\ []((extracted_text = Example3 /\ pc = "done")
             => rows = << << <<"A">>, <<"B">> >>, << <<"C">> >> >>)

\* C5: whatever table convert_to_csv writes, the csv reader of the slide renderer
\* reads back the same rows with the same cell strings in the same order, and
\* never fails on the file.
C5_RoundTripLossless ==
    /\ err2 # "csv.Error"
    /\ pc2 = "read" => IsPrefix(pp_rows, rows)
    /\ pc2 \notin {"start", "read"} => pp_rows = rows

C5_Witness ==
    /\ pc2 = "longest"
    /\ Len(rows) = 2
    /\ Len(rows[1]) # Len(rows[2])
    /\ \E r \in 1..2 : \E c \in 1..Len(rows[r]) : \E k \in 1..Len(rows[r][c]) :
          rows[r][c][k] = "\r"
    /\ \E r \in 1..2 : \E c \in 1..Len(rows[r]) : \E k \in 1..Len(rows[r][c]) :
          rows[r][c][k] \in {Delimiter, QuoteChar}

\* C6: the slide table has len(rows) rows and max-row-length columns, no cell
\* outside it is ever written, cells past the end of a short row stay blank, and
\* when the populate loop is over cell (i, j) holds rows[i][j] for every j <
\* len(rows[i]).
C6_GridLayout ==
    /\ err2 # "IndexError"
    /\ table # NoTable =>
          /\ table.nrows = Len(pp_rows)
          /\ table.ncols = MaxRowLength(pp_rows)
          /\ DOMAIN table.cells = (0..(Len(pp_rows) - 1)) \X (0..(MaxRowLength(pp_rows) - 1))
          /\ \A p \in DOMAIN table.cells :
                p[2] >= Len(pp_rows[p[1] + 1]) => table.cells[p] = <<>>
    /\ (table # NoTable /\ i >= Len(pp_rows)) =>
          \A p \in DOMAIN table.cells :
             p[2] < Len(pp_rows[p[1] + 1]) => table.cells[p] = pp_rows[p[1] + 1][p[2] + 1]

C6_Witness ==
    /\ pc2 = "done"
    /\ Len(pp_rows) = 2
    /\ Len(pp_rows[1]) = 1
    /\ Len(pp_rows[2]) = 2
    /\ table.ncols = 2
    /\ table.cells[<<1, 1>>] # <<>>
    /\ table.cells[<<0, 1>>] = <<>>

InExtract == pc \in {"extract_open", "extract_page", "extract_pixmap", "extract_save",
                     "extract_close"}

\* C7: once extract_image_from_pdf has returned or raised, the document handle it
\* opened is not open any more.
C7_HandleClosedOnEveryExit == ~InExtract => pdf_document # "open"

StageOrder == <<"rasterize", "deskew", "strip_gridlines", "detect_text",
                "reconstruct_rows", "serialize">>

StageOf(p) ==
    CASE p \in {"extract_open", "extract_page", "extract_pixmap", "extract_save",
                "extract_close"} -> "rasterize"
      [] p \in {"skew_contours", "skew_largest", "skew_write"} -> "deskew"
      [] p \in {"lines_read", "lines_write"} -> "strip_gridlines"
      [] p = "ocr" -> "detect_text"
      [] p \in {"recon_init", "recon_loop"} -> "reconstruct_rows"
      [] p \in {"csv_open", "csv_write"} -> "serialize"
      [] OTHER -> "none"

Written == {"raster", "deskewed", "stripped"}

\* C8: the stages complete in the order rasterize, deskew, strip gridlines,
\* detect text, reconstruct rows, serialize, the stage that runs is the one after
\* the last completed; a failure ends the run (nothing runs or completes after
\* it, no retry) and leaves the bitmap written so far in place.
C8_StagesInOrderFailFast ==
    /\ [](IsPrefix(completed, StageOrder))
    /\ [](StageOf(pc) # "none" => StageOf(pc) = StageOrder[Len(completed) + 1])
    /\ [][pc = "raised" => UNCHANGED vars]_vars
    /\ [][err' # err => (pc' = "raised" /\ completed' = completed /\ image_file' = image_file)]_vars
    /\ [][(image_file \in Written) => (image_file' \in Written)]_vars

C8_Witness ==
    /\ pc = "raised"
    /\ completed = <<"rasterize", "deskew">>
    /\ image_file = "deskewed"

\* C9: when findContours returns no contour, correct_skew ends in an error (the
\* ValueError of max over an empty sequence) without writing its output image:
\* the file keeps the rasterizer's bitmap and the stage never completes.
C9_NoContoursIsAnError ==
    contours = 0 =>
        /\ pc \in {"skew_largest", "raised"}
        /\ pc = "raised" => err = "ValueError"
        /\ image_file = "raster"
        /\ \A k \in 1..Len(completed) : completed[k] # "deskew"

C9_Witness == contours = 0 /\ pc = "raised" /\ err = "ValueError"

\* C10: after any number of passes of the reconstruction loop no row is empty and
\* the rows, concatenated in table order, are the texts of the detections taken
\* up so far in input order.
C10_OrderPreservedNoEmptyRow ==
    /\ \A k \in 1..Len(rows) : rows[k] # <<>>
    /\ Flatten(rows) = TextsOf(extracted_text, idx - 1)

C10_Witness ==
    /\ pc = "done"
    /\ Len(rows) = 2
    /\ Len(rows[1]) = 2
    /\ rows[1][1] # rows[1][2]
    /\ \E k \in 1..(Len(extracted_text) - 1) : extracted_text[k + 1].y < extracted_text[k].y

====
